---- MODULE Spec2Model ----
(***************************************************************************)
(* Stonkulator: a single-symbol stock dashboard (src/main.py, the Cloud Run *)
(* service, and src/stonkulator.py, the local script).  The functions       *)
(* fetch_stock_data, create_stock_chart and create_stats_panel are          *)
(* textually the same in both files (only comments and the heading of the   *)
(* statistics text differ), so one operator models both copies.             *)
(*                                                                          *)
(* Numbers.  Prices and the series derived from them are floats in pandas.  *)
(* They are modelled as exact rationals [n, d] in lowest terms with d > 0;  *)
(* NaN, pandas' "no value" marker, is [n |-> 0, d |-> 0].  Closes are drawn *)
(* from 1..MaxClose (the provider's closes are positive).                   *)
(*                                                                          *)
(* The @pn.cache(ttl=300) decorator of fetch_stock_data is not modelled:    *)
(* the component check asks for period "1y" and the dashboard for "2y", so  *)
(* no start-up path asks the cache for a key twice, and a hit can only      *)
(* return a value that an earlier call of the same function computed.       *)
(***************************************************************************)
EXTENDS Integers, Sequences, FiniteSets, TLC

\* Longest price history the provider answers with.
MaxLen == 3
\* Largest close price.
MaxClose == 3

\* EMA spans of fetch_stock_data.
Span9 == 9
Span50 == 50
Span200 == 200
\* Trading days per year used by create_stats_panel.
TradingDays == 252

----------------------------------------------------------------------------
(* Rational arithmetic with NaN propagation (float semantics of pandas).   *)

Abs(x) == IF x < 0 THEN -x ELSE x

RECURSIVE GCD(_, _)
GCD(a, b) == IF b = 0 THEN a ELSE GCD(b, a % b)

NaN == [n |-> 0, d |-> 0]
IsNaN(x) == x.d = 0

\* n/d in lowest terms, d # 0.
Norm(n, d) ==
    LET s == IF d < 0 THEN -1 ELSE 1
        g == GCD(Abs(n), Abs(d))
    IN [n |-> (s * n) \div g, d |-> (s * d) \div g]

R(k) == [n |-> k, d |-> 1]
Zero == R(0)
One == R(1)

Add(x, y) ==
    IF IsNaN(x) \/ IsNaN(y) THEN NaN
    ELSE LET g == GCD(x.d, y.d)
         IN Norm(x.n * (y.d \div g) + y.n * (x.d \div g), (x.d \div g) * y.d)

Neg(x) == IF IsNaN(x) THEN NaN ELSE [n |-> -x.n, d |-> x.d]
Sub(x, y) == Add(x, Neg(y))

\* Cross-cancelling keeps the intermediate products small.
Mul(x, y) ==
    IF IsNaN(x) \/ IsNaN(y) THEN NaN
    ELSE LET g1 == GCD(Abs(x.n), y.d)
             g2 == GCD(Abs(y.n), x.d)
         IN Norm((x.n \div g1) * (y.n \div g2), (x.d \div g2) * (y.d \div g1))

\* 0/0 is NaN as in numpy; x/0 with x # 0 does not arise (closes are positive).
Div(x, y) ==
    IF IsNaN(x) \/ IsNaN(y) \/ y.n = 0 THEN NaN
    ELSE Mul(x, Norm(y.d, y.n))

RECURSIVE Sum(_)
Sum(xs) == IF xs = <<>> THEN Zero ELSE Add(Head(xs), Sum(Tail(xs)))

\* The non-negative square root of a rational, kept as its radicand:
\* Sqrt(x) is zero iff x is zero and NaN iff x is NaN.
Sqrt(x) == [radicand |-> x]

----------------------------------------------------------------------------
(* pandas Series operations used by the program.                            *)

\* Series.pct_change(): NaN at the first position, then x[i] / x[i-1] - 1.
pct_change(xs) ==
    [i \in 1..Len(xs) |-> IF i = 1 THEN NaN ELSE Sub(Div(xs[i], xs[i-1]), One)]

\* One step of pandas' online ewm mean with adjust=True (the default):
\* the weight on the running average decays by 1-alpha, the new observation
\* enters with weight 1, and the accumulated weight normalises the average.
ewm_step(st, cur, alpha) ==
    LET old_wt == Mul(st.old_wt, Sub(One, alpha))
        weighted == IF st.weighted # cur
                    THEN Div(Add(Mul(old_wt, st.weighted), cur), Add(old_wt, One))
                    ELSE st.weighted
    IN [weighted |-> weighted, old_wt |-> Add(old_wt, One)]

RECURSIVE ewm_state(_, _, _)
ewm_state(xs, alpha, i) ==
    IF i = 1 THEN [weighted |-> xs[1], old_wt |-> One]
    ELSE ewm_step(ewm_state(xs, alpha, i - 1), xs[i], alpha)

\* A plausible slip: ewm(span=s, adjust=False), the simple recursion.
RECURSIVE ewm_adjust_false(_, _, _)
ewm_adjust_false(xs, alpha, i) ==
    IF i = 1 THEN xs[1]
    ELSE Add(Mul(alpha, xs[i]), Mul(Sub(One, alpha), ewm_adjust_false(xs, alpha, i - 1)))

ewm_mean_adjust_false(xs, span) ==
    [i \in 1..Len(xs) |-> ewm_adjust_false(xs, Div(R(2), R(span + 1)), i)]

\* A plausible slip: rolling(span).mean()-like warm-up, the first span-1
\* entries have no value.
ewm_mean_min_periods(xs, span) ==
    [i \in 1..Len(xs) |->
        IF i < span THEN NaN ELSE ewm_state(xs, Div(R(2), R(span + 1)), i).weighted]

\* Series.ewm(span=span).mean(): alpha = 2 / (span + 1), min_periods = 0.
ewm_mean(xs, span) ==
    [i \in 1..Len(xs) |-> ewm_state(xs, Div(R(2), R(span + 1)), i).weighted]

\* A plausible slip: fillna(0) instead of dropna().
dropna_fill(xs) == [i \in 1..Len(xs) |-> IF IsNaN(xs[i]) THEN Zero ELSE xs[i]]

\* Series.dropna(): the entries that are not NaN, in order.
dropna(xs) == SelectSeq(xs, LAMBDA x : ~IsNaN(x))

\* Series.mean(): NaN for an empty series.
mean(xs) == IF Len(xs) = 0 THEN NaN ELSE Div(Sum(xs), R(Len(xs)))

\* A plausible slip: the population variance (ddof = 0).
var_population(xs) ==
    IF Len(xs) = 0 THEN NaN
    ELSE LET m == mean(xs)
             sq == [i \in 1..Len(xs) |-> Mul(Sub(xs[i], m), Sub(xs[i], m))]
         IN Div(Sum(sq), R(Len(xs)))

\* Series.var() with ddof = 1: NaN when fewer than two values.
var(xs) ==
    IF Len(xs) <= 1 THEN NaN
    ELSE LET m == mean(xs)
             sq == [i \in 1..Len(xs) |-> Mul(Sub(xs[i], m), Sub(xs[i], m))]
         IN Div(Sum(sq), R(Len(xs) - 1))

\* Series.std(): the sample standard deviation (ddof = 1).
std(xs) == Sqrt(var(xs))

----------------------------------------------------------------------------
(* Tables.  A DataFrame is its columns, each a series over the same rows;   *)
(* the Volume column and the date index take part in no derived series and  *)
(* are left out.  None is Python's None.                                    *)

None == [kind |-> "None"]
Unset == [kind |-> "unset"]
DataFrame(cols) == [kind |-> "DataFrame", cols |-> cols]

\* len(data): the number of rows.
len(data) == Len(data.cols.Close)
\* data.empty
empty(data) == len(data) = 0

Symbol == "^GSPC"

\* What the market-data provider (yfinance) answers to one history() call:
\* a price history, an empty table, or an exception.
Histories == UNION {[1..k -> 1..MaxClose] : k \in 1..MaxLen}
Outcomes ==
    {[kind |-> "history", close |-> h] : h \in Histories}
        \cup {[kind |-> "empty", close |-> <<>>], [kind |-> "error", close |-> <<>>]}

\* ticker.history(period=period) on a provider that answers o without raising.
history(o) == DataFrame([Close |-> [i \in 1..Len(o.close) |-> R(o.close[i])]])

\* The body of fetch_stock_data's try block: the value it returns, or the
\* exception it leaves the block with.
fetch_try(o) ==
    IF o.kind = "error" THEN [ret |-> None, exc |-> "ProviderError"]
    ELSE LET data == history(o)
             Close == data.cols.Close
         IN IF empty(data) THEN [ret |-> None, exc |-> "ValueError"]
            ELSE [ret |-> DataFrame([Close   |-> Close,
                                     Returns |-> pct_change(Close),
                                     EMA_9   |-> ewm_mean(Close, Span9),
                                     EMA_50  |-> ewm_mean(Close, Span50),
                                     EMA_200 |-> ewm_mean(Close, Span200)]),
                  exc |-> "none"]

\* A plausible slip: no except clause, the exception leaves the function.
fetch_stock_data_no_except(o) ==
    LET t == fetch_try(o)
    IN [ret |-> t.ret, exc |-> t.exc, caught |-> "none", printed |-> <<>>]

\* fetch_stock_data: `except Exception` catches whatever the try block
\* raised, prints it and returns None.  exc is the exception that reaches
\* the caller, caught the one handled inside.
fetch_stock_data(o) ==
    LET t == fetch_try(o)
    IN IF t.exc # "none"
       THEN [ret |-> None, exc |-> "none", caught |-> t.exc,
             printed |-> <<"Error fetching data">>]
       ELSE [ret |-> t.ret, exc |-> "none", caught |-> "none", printed |-> <<>>]

NoDataText == "No data available"

\* `if 'EMA_9' in data.columns: fig.add_trace(...)`
ema_trace(data, column, name) ==
    IF column \in DOMAIN data.cols
    THEN <<[name |-> name, prefix |-> "", y |-> data.cols[column]]>>
    ELSE <<>>

\* A plausible slip: the EMA 200 trace added before the EMA 50 trace.
create_stock_chart_swapped(data, symbol) ==
    IF data = None \/ empty(data)
    THEN [kind |-> "Figure", traces |-> <<>>, annotations |-> <<NoDataText>>, title |-> ""]
    ELSE [kind |-> "Figure",
          traces |-> <<[name |-> "Close", prefix |-> symbol, y |-> data.cols.Close]>>
                        \o ema_trace(data, "EMA_9", "EMA 9")
                        \o ema_trace(data, "EMA_200", "EMA 200")
                        \o ema_trace(data, "EMA_50", "EMA 50"),
          annotations |-> <<>>,
          title |-> "Stock Price"]

\* A plausible slip: the no-data guard tests only `data is None`, so an
\* empty table is plotted.
create_stock_chart_none_only(data, symbol) ==
    IF data = None
    THEN [kind |-> "Figure", traces |-> <<>>, annotations |-> <<NoDataText>>, title |-> ""]
    ELSE [kind |-> "Figure",
          traces |-> <<[name |-> "Close", prefix |-> symbol, y |-> data.cols.Close]>>
                        \o ema_trace(data, "EMA_9", "EMA 9")
                        \o ema_trace(data, "EMA_50", "EMA 50")
                        \o ema_trace(data, "EMA_200", "EMA 200"),
          annotations |-> <<>>,
          title |-> "Stock Price"]

\* A plausible slip: a chart is drawn only from two bars on.
create_stock_chart_two_bars(data, symbol) ==
    IF data = None \/ len(data) < 2
    THEN [kind |-> "Figure", traces |-> <<>>, annotations |-> <<NoDataText>>, title |-> ""]
    ELSE [kind |-> "Figure",
          traces |-> <<[name |-> "Close", prefix |-> symbol, y |-> data.cols.Close]>>
                        \o ema_trace(data, "EMA_9", "EMA 9")
                        \o ema_trace(data, "EMA_50", "EMA 50")
                        \o ema_trace(data, "EMA_200", "EMA 200"),
          annotations |-> <<>>,
          title |-> "Stock Price"]

\* create_stock_chart: the figure, as its traces in the order they were
\* added, its annotations and its title.
create_stock_chart(data, symbol) ==
    IF data = None \/ empty(data)
    THEN [kind |-> "Figure", traces |-> <<>>, annotations |-> <<NoDataText>>, title |-> ""]
    ELSE [kind |-> "Figure",
          traces |-> <<[name |-> "Close", prefix |-> symbol, y |-> data.cols.Close]>>
                        \o ema_trace(data, "EMA_9", "EMA 9")
                        \o ema_trace(data, "EMA_50", "EMA 50")
                        \o ema_trace(data, "EMA_200", "EMA 200"),
          annotations |-> <<>>,
          title |-> "Stock Price"]

Placeholder == [kind |-> "Markdown", object |-> NoDataText]

\* The figures of create_stats_panel's text, from its local variables.
stats_figures(Close, returns) ==
    LET current_price == Close[Len(Close)]
        prev_close == IF Len(Close) > 1 THEN Close[Len(Close) - 1] ELSE current_price
        daily_change == Sub(current_price, prev_close)
        period_start == Close[1]
    IN [kind |-> "Markdown",
        object |-> "Statistics",
        current_price |-> current_price,
        daily_change |-> daily_change,
        daily_change_pct |-> Mul(Div(daily_change, prev_close), R(100)),
        period_return |-> Mul(Div(Sub(current_price, period_start), period_start), R(100)),
        annualized_return |-> Mul(Mul(mean(returns), R(TradingDays)), R(100)),
        \* std * sqrt(252) * 100 = sqrt(var * 252 * 100^2)
        volatility |-> Sqrt(Mul(Mul(std(returns).radicand, R(TradingDays)), R(100 * 100)))]

\* A plausible slip: the daily change is taken against the first bar, not
\* the bar before the last.
create_stats_panel_prev_first(data) ==
    IF data = None \/ empty(data) THEN Placeholder
    ELSE IF "Returns" \notin DOMAIN data.cols THEN [kind |-> "raised", object |-> "KeyError"]
    ELSE [stats_figures(data.cols.Close, dropna(data.cols.Returns))
            EXCEPT !.daily_change = Sub(data.cols.Close[len(data)], data.cols.Close[1])]

\* A plausible slip: the undefined return is filled with zero, not dropped.
create_stats_panel_fillna(data) ==
    IF data = None \/ empty(data) THEN Placeholder
    ELSE IF "Returns" \notin DOMAIN data.cols THEN [kind |-> "raised", object |-> "KeyError"]
    ELSE stats_figures(data.cols.Close, dropna_fill(data.cols.Returns))

\* create_stats_panel: the placeholder, the statistics, or the KeyError of
\* data['Returns'] on a table that was not enriched.
create_stats_panel(data) ==
    IF data = None \/ empty(data) THEN Placeholder
    ELSE IF "Returns" \notin DOMAIN data.cols THEN [kind |-> "raised", object |-> "KeyError"]
    ELSE stats_figures(data.cols.Close, dropna(data.cols.Returns))

\* A plausible slip: the failed fetch is reported but the check goes on.
test_local_no_return(test_data) ==
    IF test_data # None
    THEN [result |-> "True", printed |-> <<"Data fetched", "Chart created", "Components Ready">>]
    ELSE [result |-> "True", printed |-> <<"Data fetch failed", "Chart created", "Components Ready">>]

\* test_local / test_components after their fetch: what they print and return.
test_local(test_data) ==
    IF test_data # None
    THEN IF create_stock_chart(test_data, Symbol) # None
         THEN [result |-> "True",
               printed |-> <<"Data fetched", "Chart created", "Components Ready">>]
         ELSE [result |-> "False", printed |-> <<"Data fetched", "Chart creation failed">>]
    ELSE [result |-> "False", printed |-> <<"Data fetch failed">>]

----------------------------------------------------------------------------
(* The program as a state machine.  entry is how the code is run:           *)
(*   "cloud_run"    main.py as a script with PORT set   (serve_cloud_run)   *)
(*   "local"        main.py as a script without PORT    (serve_locally)     *)
(*   "stonkulator"  stonkulator.py as a script                              *)
(*   "import"       either module imported; the caller hands a table of     *)
(*                  its own to the two builders                             *)

VARIABLES
    entry,        \* how the code is run
    pc,           \* "start", "tested", "built", "serving", "exited", "called"
    out,          \* what has been printed, in order
    test_result,  \* what test_local / test_components returned: "True", "False"
    fetched,      \* the latest fetch_stock_data call: period, provider answer, outcome
    data,         \* the table in hand: the dashboard's `data`, the builders' input
    chart,        \* create_stock_chart's figure
    stats,        \* create_stats_panel's pane
    served,       \* pn.serve has been called on the dashboard
    exit_code,    \* the status exit() was called with, -1 while running
    calls         \* the number of provider calls so far

vars == <<entry, pc, out, test_result, fetched, data, chart, stats, served, exit_code, calls>>

Entries == {"cloud_run", "local", "stonkulator", "import"}

Init ==
    /\ entry \in Entries
    /\ pc = "start"
    /\ out = <<>>
    /\ test_result = "unset"
    /\ fetched = Unset
    /\ data = Unset
    /\ chart = Unset
    /\ stats = Unset
    /\ served = FALSE
    /\ exit_code = -1
    /\ calls = 0

\* One call fetch_stock_data("^GSPC", period) answered o by the provider:
\* what it returned (None or a DataFrame), the exception that left it and
\* the one it handled.  The table itself lives in the caller's variable
\* (test_local's test_data is gone when test_local returns).
FetchRecord(period, o, r) ==
    [kind |-> "fetch", period |-> period, provider |-> o.kind,
     returned |-> r.ret.kind, exc |-> r.exc, caught |-> r.caught]

\* main.py: serve_cloud_run / serve_locally call test_local().
TestLocal ==
    /\ entry \in {"cloud_run", "local"}
    /\ pc = "start"
    /\ \E o \in Outcomes :
         LET r == fetch_stock_data(o)
             t == test_local(r.ret)
         IN /\ fetched' = FetchRecord("1y", o, r)
            /\ test_result' = t.result
            /\ out' = out \o <<"Starting", "Testing components">> \o r.printed \o t.printed
    /\ calls' = calls + 1
    /\ pc' = "tested"
    /\ UNCHANGED <<entry, data, chart, stats, served, exit_code>>

\* serve_cloud_run: `if not test_local(): print(...); exit(1)`
ServeCloudRunExit ==
    /\ entry = "cloud_run"
    /\ pc = "tested"
    /\ test_result # "True"
    /\ out' = Append(out, "Component tests failed")
    /\ exit_code' = 1
    /\ pc' = "exited"
    /\ UNCHANGED <<entry, test_result, fetched, data, chart, stats, served, calls>>

\* serve_locally: `if not test_local(): print(...); return`
ServeLocallyReturn ==
    /\ entry = "local"
    /\ pc = "tested"
    /\ test_result # "True"
    /\ out' = Append(out, "Component tests failed")
    /\ exit_code' = 0
    /\ pc' = "exited"
    /\ UNCHANGED <<entry, test_result, fetched, data, chart, stats, served, calls>>

\* create_dashboard_app / create_dashboard: one fetch, then both builders on
\* its result.
BuildDashboard(o) ==
    LET r == fetch_stock_data(o)
    IN /\ fetched' = FetchRecord("2y", o, r)
       /\ data' = r.ret
       /\ chart' = create_stock_chart(r.ret, Symbol)
       /\ stats' = create_stats_panel(r.ret)
       /\ out' = out \o r.printed
       /\ calls' = calls + 1

\* main.py: dashboard = create_dashboard_app()
CreateDashboardApp ==
    /\ entry \in {"cloud_run", "local"}
    /\ pc = "tested"
    /\ test_result = "True"
    /\ \E o \in Outcomes : BuildDashboard(o)
    /\ pc' = "built"
    /\ UNCHANGED <<entry, test_result, served, exit_code>>

\* main.py: pn.serve(dashboard, ...)
PnServe ==
    /\ entry \in {"cloud_run", "local"}
    /\ pc = "built"
    /\ out' = Append(out, "Serving")
    /\ served' = TRUE
    /\ pc' = "serving"
    /\ UNCHANGED <<entry, test_result, fetched, data, chart, stats, exit_code, calls>>

\* stonkulator.py: `if test_components():`
TestComponents ==
    /\ entry = "stonkulator"
    /\ pc = "start"
    /\ \E o \in Outcomes :
         LET r == fetch_stock_data(o)
             t == test_local(r.ret)
         IN /\ fetched' = FetchRecord("1y", o, r)
            /\ test_result' = t.result
            /\ out' = out \o <<"Testing components">> \o r.printed \o t.printed
    /\ calls' = calls + 1
    /\ pc' = "tested"
    /\ UNCHANGED <<entry, data, chart, stats, served, exit_code>>

\* stonkulator.py: the check returned False and the script ends.
StonkulatorEnd ==
    /\ entry = "stonkulator"
    /\ pc = "tested"
    /\ test_result # "True"
    /\ exit_code' = 0
    /\ pc' = "exited"
    /\ UNCHANGED <<entry, out, test_result, fetched, data, chart, stats, served, calls>>

\* stonkulator.py: run_stonkulator -> serve_dashboard -> create_dashboard()
CreateDashboard ==
    /\ entry = "stonkulator"
    /\ pc = "tested"
    /\ test_result = "True"
    /\ \E o \in Outcomes : BuildDashboard(o)
    /\ pc' = "built"
    /\ UNCHANGED <<entry, test_result, served, exit_code>>

\* stonkulator.py: serve_dashboard's pn.serve(dashboard, port=5007, ...)
ServeDashboard ==
    /\ entry = "stonkulator"
    /\ pc = "built"
    /\ out' = out \o <<"Dashboard available", "Dashboard is running">>
    /\ served' = TRUE
    /\ pc' = "serving"
    /\ UNCHANGED <<entry, test_result, fetched, data, chart, stats, exit_code, calls>>

\* The tables a caller of the builders can hand over: None, an empty table,
\* a provider table that was not enriched, or a result of fetch_stock_data.
BuilderInputs ==
    {None, history([kind |-> "empty", close |-> <<>>])}
        \cup {history(o) : o \in {x \in Outcomes : x.kind = "history"}}
        \cup {fetch_stock_data(o).ret : o \in Outcomes}

\* The module imported: create_stock_chart(d, symbol) and
\* create_stats_panel(d) called on a table d.
CallBuilders ==
    /\ entry = "import"
    /\ pc = "start"
    /\ \E d \in BuilderInputs :
         /\ data' = d
         /\ chart' = create_stock_chart(d, Symbol)
         /\ stats' = create_stats_panel(d)
    /\ pc' = "called"
    /\ UNCHANGED <<entry, out, test_result, fetched, served, exit_code, calls>>

Next ==
    \/ TestLocal
    \/ ServeCloudRunExit
    \/ ServeLocallyReturn
    \/ CreateDashboardApp
    \/ PnServe
    \/ TestComponents
    \/ StonkulatorEnd
    \/ CreateDashboard
    \/ ServeDashboard
    \/ CallBuilders

Spec == Init /\ [][Next]_vars

----------------------------------------------------------------------------
(* Vocabulary of the properties.                                            *)

\* The results of enrichment the state holds (fetch_stock_data's non-None
\* results): the table in hand when it carries the derived columns.
EnrichedTables ==
    {d \in {data} : d.kind = "DataFrame" /\ "EMA_9" \in DOMAIN d.cols}

Spans == {Span9, Span50, Span200}

EmaColumn(d, span) ==
    CASE span = Span9 -> d.cols.EMA_9
      [] span = Span50 -> d.cols.EMA_50
      [] span = Span200 -> d.cols.EMA_200

Alpha(span) == Div(R(2), R(span + 1))

RECURSIVE Pow(_, _)
Pow(x, k) == IF k = 0 THEN One ELSE Mul(x, Pow(x, k - 1))

\* The average of xs[1..i] with weight (1-alpha)^(i-k) on xs[k], normalised
\* by the sum of the weights.
WeightedAverage(xs, alpha, i) ==
    LET w == [k \in 1..i |-> Pow(Sub(One, alpha), i - k)]
    IN Div(Sum([k \in 1..i |-> Mul(w[k], xs[k])]), Sum(w))

Flat(xs) == \A i \in 1..Len(xs) : xs[i] = xs[1]

NoData(d) == d = None \/ (d.kind = "DataFrame" /\ empty(d))
HasRows(d) == d.kind = "DataFrame" /\ ~empty(d)
BuildersRan == chart # Unset /\ stats # Unset
IsNoDataChart(c) == c.kind = "Figure" /\ c.traces = <<>> /\ c.annotations = <<NoDataText>>
IsStatistics(p) == p.kind = "Markdown" /\ p.object = "Statistics"
Printed(msg) == \E i \in 1..Len(out) : out[i] = msg
StartupEntry == entry \in {"cloud_run", "local", "stonkulator"}

----------------------------------------------------------------------------
\* C1: when the builders are handed "no data" (None from a failed fetch, or
\* an empty table), create_stock_chart returns a figure with no traces and
\* the "No data available" annotation, create_stats_panel returns the
\* "No data available" placeholder, and neither raises.
C1_NoDataPlaceholders ==
    (BuildersRan /\ NoData(data)) =>
        /\ IsNoDataChart(chart)
        /\ Len(chart.traces) = 0
        /\ stats = Placeholder
        /\ stats.kind # "raised"

\* An empty table (zero rows) has gone through both builders.
C1_Witness ==
    /\ BuildersRan
    /\ data.kind = "DataFrame"
    /\ empty(data)

\* C2 as stated: on an empty provider answer the EmptyInput condition
\* reaches the caller of fetch_stock_data as an error (an exception), not
\* handled inside the function.
C2_Original ==
    (fetched.kind = "fetch" /\ fetched.provider = "empty") =>
        /\ fetched.exc = "ValueError"
        /\ fetched.caught = "none"

\* C2 amended: on an empty provider answer fetch_stock_data computes no
\* derived series; the ValueError it raises is caught inside the function,
\* which prints the error and returns None, so the caller gets None and no
\* exception, and a component check on that result returns False.
C2_EmptyReturnsNone ==
    (fetched.kind = "fetch" /\ fetched.provider = "empty") =>
        /\ fetched.returned = "None"
        /\ fetched.caught = "ValueError"
        /\ fetched.exc = "none"
        /\ Printed("Error fetching data")
        /\ (fetched.period = "1y" => test_result = "False")
        /\ (fetched.period = "2y" => data = None /\ EnrichedTables = {})

\* The component check's fetch was answered with an empty history.
C2_Witness ==
    /\ fetched.kind = "fetch"
    /\ fetched.provider = "empty"
    /\ fetched.period = "1y"
    /\ pc = "tested"

\* C3 as stated: every EMA follows the simple recursion
\* ema[i] = alpha*close[i] + (1-alpha)*ema[i-1] from ema[0] = close[0].
C3_Original ==
    \A d \in EnrichedTables : \A span \in Spans :
        LET ema == EmaColumn(d, span)
            Close == d.cols.Close
        IN /\ ema[1] = Close[1]
           /\ \A i \in 2..len(d) :
                ema[i] = Add(Mul(Alpha(span), Close[i]),
                             Mul(Sub(One, Alpha(span)), ema[i - 1]))

\* C3 amended: with alpha = 2/(s+1), ema[0] = close[0] and every ema[i] is
\* the weighted average of close[0..i] with weight (1-alpha)^k on the bar k
\* steps back, normalised by the sum of those weights (pandas' adjust=True).
C3_EmaWeightedAverage ==
    \A d \in EnrichedTables : \A span \in Spans :
        LET ema == EmaColumn(d, span)
            Close == d.cols.Close
        IN /\ ema[1] = Close[1]
           /\ \A i \in 1..len(d) : ema[i] = WeightedAverage(Close, Alpha(span), i)

\* An enriched history of at least two bars whose close moved.
C3_Witness ==
    \E d \in EnrichedTables : len(d) >= 2 /\ d.cols.Close[2] # d.cols.Close[1]

\* C4: for every non-empty history each EMA series (spans 9, 50, 200) has
\* as many entries as the history, all of them defined, and its first entry
\* equals close[0].
C4_EmaLengthAndSeed ==
    \A d \in EnrichedTables : \A span \in Spans :
        LET ema == EmaColumn(d, span)
        IN /\ Len(ema) = len(d)
           /\ DOMAIN ema = DOMAIN d.cols.Close
           /\ ema[1] = d.cols.Close[1]
           /\ \A i \in 1..len(d) : ~IsNaN(ema[i])

\* An enriched history of the greatest length.
C4_Witness ==
    \E d \in EnrichedTables : len(d) = MaxLen

\* C5: Returns has the no-value marker (not zero) at index 0 and
\* (close[i] - close[i-1]) / close[i-1] at every i >= 1; the statistics
\* drop exactly the undefined entry, and average the rest.
C5_ReturnsAndDropna ==
    /\ \A d \in EnrichedTables :
         LET Close == d.cols.Close
             Returns == d.cols.Returns
         IN /\ Len(Returns) = len(d)
            /\ IsNaN(Returns[1])
            /\ Returns[1] # Zero
            /\ \A i \in 2..len(d) :
                 /\ ~IsNaN(Returns[i])
                 /\ Returns[i] = Div(Sub(Close[i], Close[i - 1]), Close[i - 1])
            /\ dropna(Returns) = SubSeq(Returns, 2, len(d))
    /\ (IsStatistics(stats) /\ data \in EnrichedTables) =>
         LET Close == data.cols.Close
             defined == [i \in 1..(len(data) - 1) |->
                            Div(Sub(Close[i + 1], Close[i]), Close[i])]
         IN stats.annualized_return = Mul(mean(defined), R(TradingDays * 100))

\* Statistics computed from a history with two defined returns.
C5_Witness ==
    /\ IsStatistics(stats)
    /\ data \in EnrichedTables
    /\ len(data) = 3
    /\ data.cols.Close[2] # data.cols.Close[1]

\* C6: a single-bar history gives dailyChange = 0 and periodReturnPct = 0;
\* with two or more bars dailyChange = close[last] - close[last-1] and
\* periodReturnPct = (close[last] - close[0]) / close[0] * 100.
C6_DailyChangeAndPeriodReturn ==
    (IsStatistics(stats) /\ HasRows(data)) =>
        LET Close == data.cols.Close
            last == len(data)
        IN /\ last = 1 =>
                /\ stats.daily_change = Zero
                /\ stats.period_return = Zero
           /\ last >= 2 =>
                /\ stats.daily_change = Sub(Close[last], Close[last - 1])
                /\ stats.period_return =
                     Mul(Div(Sub(Close[last], Close[1]), Close[1]), R(100))

\* Statistics computed from a single bar.
C6_Witness ==
    /\ IsStatistics(stats)
    /\ HasRows(data)
    /\ len(data) = 1

\* C7 as stated: every non-empty all-flat history gives
\* annualizedVolatilityPct = 0 and annualizedReturnPct = 0.
C7_Original ==
    (IsStatistics(stats) /\ HasRows(data) /\ Flat(data.cols.Close)) =>
        /\ stats.volatility.radicand = Zero
        /\ stats.annualized_return = Zero

\* C7 amended: an all-flat history of at least three bars gives
\* annualizedVolatilityPct = 0 and annualizedReturnPct = 0; with exactly two
\* bars the return is 0 and the volatility has no value (NaN: the sample
\* standard deviation of one return); with one bar both have no value.
C7_FlatSeries ==
    (IsStatistics(stats) /\ HasRows(data) /\ Flat(data.cols.Close)) =>
        /\ len(data) >= 3 =>
             /\ stats.volatility.radicand = Zero
             /\ stats.annualized_return = Zero
        /\ len(data) = 2 =>
             /\ IsNaN(stats.volatility.radicand)
             /\ stats.annualized_return = Zero
        /\ len(data) = 1 =>
             /\ IsNaN(stats.volatility.radicand)
             /\ IsNaN(stats.annualized_return)

\* Statistics computed from an all-flat history of three or more bars.
C7_Witness ==
    /\ IsStatistics(stats)
    /\ HasRows(data)
    /\ Flat(data.cols.Close)
    /\ len(data) >= 3

TraceOrder == <<"Close", "EMA 9", "EMA 50", "EMA 200">>
Rank(name) == CHOOSE k \in 1..Len(TraceOrder) : TraceOrder[k] = name

\* C8: for every non-empty history the chart's traces are in the fixed order
\* close, EMA 9, EMA 50, EMA 200: close is present and first, an EMA trace
\* is there only if its series has a defined value, none is out of order or
\* repeated; an enriched history shows all four.
C8_TraceOrder ==
    (chart # Unset /\ HasRows(data)) =>
        LET tr == chart.traces
        IN /\ Len(tr) >= 1
           /\ tr[1].name = "Close"
           /\ tr[1].y = data.cols.Close
           /\ \A i \in 1..Len(tr) : \E k \in 1..Len(TraceOrder) : TraceOrder[k] = tr[i].name
           /\ \A i, j \in 1..Len(tr) : i < j => Rank(tr[i].name) < Rank(tr[j].name)
           /\ \A i \in 2..Len(tr) : \E k \in 1..Len(tr[i].y) : ~IsNaN(tr[i].y[k])
           /\ data \in EnrichedTables =>
                /\ [i \in 1..Len(tr) |-> tr[i].name] = TraceOrder
                /\ tr[2].y = data.cols.EMA_9
                /\ tr[3].y = data.cols.EMA_50
                /\ tr[4].y = data.cols.EMA_200

\* A chart of an enriched history with all four traces.
C8_Witness ==
    /\ chart # Unset
    /\ data \in EnrichedTables
    /\ Len(chart.traces) = 4

\* C9: a dashboard build fetches once and builds the chart and the
\* statistics from that one result: both show the data, or both are the
\* no-data placeholder, whatever the provider answered.
C9_NoPartialResults ==
    (StartupEntry /\ pc \in {"built", "serving"}) =>
        /\ calls = 2
        /\ fetched.period = "2y"
        /\ data.kind = fetched.returned
        /\ stats.kind # "raised"
        /\ (fetched.provider \in {"empty", "error"}) =>
             /\ data = None
             /\ IsNoDataChart(chart)
             /\ stats = Placeholder
        /\ fetched.provider = "history" =>
             /\ data \in EnrichedTables
             /\ ~IsNoDataChart(chart)
             /\ IsStatistics(stats)
             /\ chart.traces[1].y = data.cols.Close
             /\ stats.current_price = data.cols.Close[len(data)]
        /\ IsNoDataChart(chart) <=> stats = Placeholder

\* A dashboard built (and served) while the provider raised.
C9_Witness ==
    /\ StartupEntry
    /\ pc = "serving"
    /\ fetched.provider = "error"

\* C10: in every start-up path the dashboard is built and served only after
\* the component check returned True; when the check's fetch returned None
\* the server is never started: serve_cloud_run exits with status 1, the
\* other two end without serving.
C10_ServeOnlyAfterCheck ==
    StartupEntry =>
        /\ (served \/ pc \in {"built", "serving"} \/ BuildersRan) =>
             /\ test_result = "True"
             /\ Printed("Components Ready")
        /\ Printed("Data fetch failed") =>
             /\ test_result = "False"
             /\ ~served
             /\ pc \in {"tested", "exited"}
             /\ chart = Unset
        /\ pc = "exited" =>
             /\ ~served
             /\ test_result = "False"
             /\ exit_code = (IF entry = "cloud_run" THEN 1 ELSE 0)
        /\ (pc = "tested" /\ fetched.returned = "None") => test_result = "False"

\* The Cloud Run path is serving.
C10_Witness ==
    /\ entry = "cloud_run"
    /\ served
    /\ test_result = "True"

====
